---------------------------- MODULE Spec2Model ----------------------------
(***************************************************************************)
(* Model of the Gemini image editor: the service module (fileToBase64,     *)
(* editImageWithPrompt) and the React component App that drives them.      *)
(*                                                                         *)
(* JavaScript strings that the code takes apart or puts together are       *)
(* sequences of one-character strings; `null` is the empty tuple None and  *)
(* a present value v is the one-element tuple Some(v).                     *)
(***************************************************************************)
EXTENDS Naturals, Sequences, FiniteSets, Bags

VARIABLES
    apiKey,          \* process.env.API_KEY
    originalImage,   \* App state: ImageFile | null
    prompt,          \* App state: string
    generatedImage,  \* App state: string | null
    isLoading,       \* App state: boolean
    error,           \* App state: string | null
    reads,           \* fileToBase64 promises awaited by handleImageChange
    edits,           \* editImageWithPrompt promises awaited by handleGenerateClick
    fileInput,       \* the file chosen in the <input id="file-upload">, if any
    settled,         \* history: the last edit promise a handleGenerateClick resumed on
    call,            \* one invocation of editImageWithPrompt observed on its own
    enc              \* one invocation of fileToBase64 observed on its own

vars == <<apiKey, originalImage, prompt, generatedImage, isLoading, error,
          reads, edits, fileInput, settled, call, enc>>

uiVars == <<originalImage, prompt, generatedImage, isLoading, error,
            reads, edits, fileInput, settled>>

(***************************************************************************)
(* Bounds of the model.                                                    *)
(***************************************************************************)
MaxLen == 3            \* longest file content, in bytes
MaxParts == 2          \* most parts in one candidate of a response
MaxPendingReads == 2   \* most file reads pending at once
MaxPendingEdits == 2   \* most edit requests pending at once

None == <<>>
Some(v) == <<v>>

\* What indexing past the end of an array yields; no text is equal to it.
Undefined == <<"undefined">>

(***************************************************************************)
(* Texts.                                                                  *)
(***************************************************************************)
DataScheme == <<"d", "a", "t", "a", ":">>
Base64Marker == <<";", "b", "a", "s", "e", "6", "4", ",">>
ImagePng == <<"i", "m", "a", "g", "e", "/", "p", "n", "g">>
ImageJpeg == <<"i", "m", "a", "g", "e", "/", "j", "p", "e", "g">>
OctetStream == <<"a", "p", "p", "l", "i", "c", "a", "t", "i", "o", "n", "/",
                 "o", "c", "t", "e", "t", "-", "s", "t", "r", "e", "a", "m">>
NoType == <<>>

B64 == <<"A", "B", "C", "D", "E", "F", "G", "H", "I", "J", "K", "L", "M",
         "N", "O", "P", "Q", "R", "S", "T", "U", "V", "W", "X", "Y", "Z",
         "a", "b", "c", "d", "e", "f", "g", "h", "i", "j", "k", "l", "m",
         "n", "o", "p", "q", "r", "s", "t", "u", "v", "w", "x", "y", "z",
         "0", "1", "2", "3", "4", "5", "6", "7", "8", "9", "+", "/">>

ByteVals == {0, 77, 250, 255}

RECURSIVE SeqsUpTo(_, _)
SeqsUpTo(S, n) ==
    IF n = 0 THEN {<<>>}
    ELSE LET shorter == SeqsUpTo(S, n - 1)
         IN  shorter \cup {Append(s, x) : s \in shorter, x \in S}

(***************************************************************************)
(* fileToBase64                                                            *)
(***************************************************************************)

\* The base64 text FileReader puts into a data URL for the bytes b.
RECURSIVE Base64Encode(_)
Base64Encode(b) ==
    IF Len(b) = 0 THEN <<>>
    ELSE IF Len(b) = 1 THEN
        <<B64[(b[1] \div 4) + 1], B64[(b[1] % 4) * 16 + 1], "=", "=">>
    ELSE IF Len(b) = 2 THEN
        <<B64[(b[1] \div 4) + 1],
          B64[(b[1] % 4) * 16 + (b[2] \div 16) + 1],
          B64[(b[2] % 16) * 4 + 1], "=">>
    ELSE
        <<B64[(b[1] \div 4) + 1],
          B64[(b[1] % 4) * 16 + (b[2] \div 16) + 1],
          B64[(b[2] % 16) * 4 + (b[3] \div 64) + 1],
          B64[(b[3] % 64) + 1]>> \o Base64Encode(SubSeq(b, 4, Len(b)))

\* The data URL of a file as the File API words it. A file of unknown type is
\* labelled application/octet-stream.
DataURL(file) ==
    DataScheme \o (IF file.type = NoType THEN OctetStream ELSE file.type)
               \o Base64Marker \o Base64Encode(file.bytes)

\* reader.readAsDataURL(file): what reader.result may be once the read has
\* succeeded. The code does not choose the engine it runs on: for a file of
\* no bytes Gecko gives the data URL with its header and an empty payload,
\* Blink and WebKit give "data:" alone.
ReadAsDataURL(file) ==
    IF file.bytes = <<>> THEN {DataURL(file), DataScheme} ELSE {DataURL(file)}

\* String.prototype.split, for a one-character separator.
RECURSIVE Split(_, _)
Split(s, sep) ==
    IF \A i \in 1..Len(s) : s[i] # sep THEN <<s>>
    ELSE LET k == CHOOSE i \in 1..Len(s) :
                      s[i] = sep /\ \A j \in 1..(i - 1) : s[j] # sep
         IN  <<SubSeq(s, 1, k - 1)>> \o Split(SubSeq(s, k + 1, Len(s)), sep)

\* array[i], i counted from 0 as the code does.
At(array, i) == IF i + 1 \in 1..Len(array) THEN array[i + 1] ELSE Undefined

\* reader.onload: the value the promise resolves to.
OnLoad(result) == At(Split(result, ","), 1)

\* The promise fileToBase64 returns: pending, then fulfilled or rejected.
ReadPending(file) ==
    [file |-> file, pc |-> "pending", value |-> Undefined, reason |-> None]

ReadFulfilled(p, result) ==
    [p EXCEPT !.pc = "fulfilled", !.value = OnLoad(result)]

ReadRejected(p, event) ==
    [p EXCEPT !.pc = "rejected", !.reason = Some(event)]

ReadErrors == {"NotReadableError", "NotFoundError"}


(***************************************************************************)
(* editImageWithPrompt                                                     *)
(***************************************************************************)
KeyNotSetMessage == "API_KEY environment variable is not set."
NoImageMessage ==
    "No image data found in the API response. The model may have refused the request."
FailedPrefix == "Failed to generate image: "

\* new Error(message); a message is the sequence of the pieces it was built of.
\* `text` is String(value).
JSError(message) ==
    [isError |-> TRUE, message |-> message, text |-> <<"Error: ">> \o message]

\* A value that is thrown but is no Error, such as a string.
JSThrownText(t) == [isError |-> FALSE, message |-> <<>>, text |-> <<t>>]

\* !process.env.API_KEY
KeyMissing(key) == key = None \/ key[1] = ""

\* The argument of ai.models.generateContent.
Request(base64ImageData, mimeType, promptText) ==
    [model |-> "gemini-2.5-flash-image",
     parts |-> <<[inlineData |-> Some([data |-> base64ImageData,
                                       mimeType |-> mimeType]),
                  text |-> None],
                 [inlineData |-> None, text |-> Some(promptText)]>>,
     responseModalities |-> <<"IMAGE">>]

\* A plausible slip: the request is sent without looking at the credential.
EditStartUnchecked(key, base64ImageData, mimeType, promptText) ==
    [pc |-> "awaiting",
     requests |-> <<Request(base64ImageData, mimeType, promptText)>>,
     response |-> None, value |-> Undefined, reason |-> None, logged |-> <<>>]

\* The promise editImageWithPrompt returns, as it stands when the call reaches
\* its first await or throws before it. `requests` are the generateContent
\* calls it has issued.
EditStart(key, base64ImageData, mimeType, promptText) ==
    IF KeyMissing(key)
    THEN [pc |-> "rejected", requests |-> <<>>, response |-> None,
          value |-> Undefined,
          reason |-> Some(JSError(<<KeyNotSetMessage>>)), logged |-> <<>>]
    ELSE [pc |-> "awaiting",
          requests |-> <<Request(base64ImageData, mimeType, promptText)>>,
          response |-> None, value |-> Undefined, reason |-> None,
          logged |-> <<>>]

\* response.candidates?.[0]?.content?.parts || []
FirstCandidateParts(response) ==
    IF response.candidates = None THEN <<>>
    ELSE IF Len(response.candidates[1]) = 0 THEN <<>>
    ELSE LET first == response.candidates[1][1]
         IN  IF first.content = None THEN <<>>
             ELSE IF first.content[1].parts = None THEN <<>>
             ELSE first.content[1].parts[1]

\* A plausible slip: the loop keeps the last image part instead of returning
\* at the first.
RECURSIVE FirstInlineDataKeepsLast(_)
FirstInlineDataKeepsLast(parts) ==
    IF parts = <<>> THEN None
    ELSE LET k == Len(parts)
         IN  IF parts[k].inlineData # None
             THEN Some(parts[k].inlineData[1].data)
             ELSE FirstInlineDataKeepsLast(SubSeq(parts, 1, k - 1))

\* The for loop over the parts: Some(data) where it returns, None where it
\* runs off the end.
RECURSIVE FirstInlineData(_)
FirstInlineData(parts) ==
    IF parts = <<>> THEN None
    ELSE IF Head(parts).inlineData # None
         THEN Some(Head(parts).inlineData[1].data)
         ELSE FirstInlineData(Tail(parts))

\* error instanceof Error ? error.message : String(error)
Diagnostic(thrown) == IF thrown.isError THEN thrown.message ELSE thrown.text

\* What the catch block throws.
Wrap(thrown) == JSError(<<FailedPrefix>> \o Diagnostic(thrown))

\* A plausible slip: the catch block passes the error on as it is.
CaughtRethrows(p, thrown) ==
    [p EXCEPT !.pc = "rejected", !.logged = Append(@, thrown),
              !.reason = Some(thrown)]

\* The catch block: console.error, then throw.
Caught(p, thrown) ==
    [p EXCEPT !.pc = "rejected", !.logged = Append(@, thrown),
              !.reason = Some(Wrap(thrown))]

\* The call resumed with the service's response.
EditOnResponse(p, response) ==
    LET q == [p EXCEPT !.response = Some(response)]
        found == FirstInlineData(FirstCandidateParts(response))
    IN  IF found # None
        THEN [q EXCEPT !.pc = "fulfilled", !.value = found[1]]
        ELSE Caught(q, JSError(<<NoImageMessage>>))

\* A plausible slip: the failed call is made again.
EditOnFailureRetries(p, thrown) ==
    [p EXCEPT !.requests = Append(@, @[1]), !.logged = Append(@, thrown)]

\* The call resumed with generateContent's rejection.
EditOnFailure(p, thrown) == Caught(p, thrown)

(***************************************************************************)
(* What the remote service may answer.                                     *)
(***************************************************************************)
ABC123 == <<"A", "B", "C", "1", "2", "3">>
TQ == <<"T", "Q", "=", "=">>

TextPart == [inlineData |-> None, text |-> Some("Here is your image.")]
OtherPart == [inlineData |-> None, text |-> None]
InlinePart(data) ==
    [inlineData |-> Some([data |-> data, mimeType |-> ImagePng]), text |-> None]

Parts == {TextPart, OtherPart, InlinePart(ABC123), InlinePart(TQ),
          InlinePart(Undefined)}

Candidates ==
    {[content |-> None], [content |-> Some([parts |-> None])]}
    \cup {[content |-> Some([parts |-> Some(ps)])] : ps \in SeqsUpTo(Parts, MaxParts)}

Responses ==
    {[candidates |-> None], [candidates |-> Some(<<>>)]}
    \cup {[candidates |-> Some(<<c>>)] : c \in Candidates}
    \cup {[candidates |-> Some(<<c, d>>)] : c, d \in Candidates}

TransportFailures ==
    {JSError(<<"got status: 500 Internal Server Error">>),
     JSError(<<"Unexpected token < in JSON at position 0">>),
     JSThrownText("timeout")}

KeyValues == {None, Some(""), Some("AIza-key")}

(***************************************************************************)
(* One invocation of editImageWithPrompt.                                  *)
(***************************************************************************)
Invoke ==
    /\ call = None
    /\ \E b \in {<<>>, TQ}, m \in {ImagePng, ImageJpeg} :
           call' = Some(EditStart(apiKey, b, m, "add a retro filter"))
    /\ UNCHANGED <<apiKey, enc>>
    /\ UNCHANGED uiVars

Respond ==
    /\ call # None
    /\ call[1].pc = "awaiting"
    /\ \E r \in Responses : call' = Some(EditOnResponse(call[1], r))
    /\ UNCHANGED <<apiKey, enc>>
    /\ UNCHANGED uiVars

Fail ==
    /\ call # None
    /\ call[1].pc = "awaiting"
    /\ \E t \in TransportFailures : call' = Some(EditOnFailure(call[1], t))
    /\ UNCHANGED <<apiKey, enc>>
    /\ UNCHANGED uiVars

(***************************************************************************)
(* One invocation of fileToBase64.                                         *)
(***************************************************************************)
EncFiles ==
    {[name |-> "any", type |-> t, bytes |-> b] :
        t \in {ImagePng, ImageJpeg, NoType}, b \in SeqsUpTo(ByteVals, MaxLen)}

Encode ==
    /\ enc = None
    /\ \E f \in EncFiles : enc' = Some(ReadPending(f))
    /\ UNCHANGED <<apiKey, call>>
    /\ UNCHANGED uiVars

EncodeLoads ==
    /\ enc # None
    /\ enc[1].pc = "pending"
    /\ \E result \in ReadAsDataURL(enc[1].file) :
           enc' = Some(ReadFulfilled(enc[1], result))
    /\ UNCHANGED <<apiKey, call>>
    /\ UNCHANGED uiVars

EncodeFails ==
    /\ enc # None
    /\ enc[1].pc = "pending"
    /\ \E ev \in ReadErrors : enc' = Some(ReadRejected(enc[1], ev))
    /\ UNCHANGED <<apiKey, call>>
    /\ UNCHANGED uiVars

(***************************************************************************)
(* App                                                                     *)
(***************************************************************************)
UIFiles ==
    {[name |-> "cat.png", type |-> ImagePng, bytes |-> <<77>>],
     [name |-> "empty.jpg", type |-> ImageJpeg, bytes |-> <<>>]}

Prompts == {"add a retro filter"}

UIResponses ==
    {[candidates |-> Some(<<>>)],
     [candidates |-> Some(<<[content |-> Some([parts |-> Some(<<TextPart>>)])]>>)],
     [candidates |->
         Some(<<[content |-> Some([parts |-> Some(<<TextPart, InlinePart(ABC123)>>)])]>>)]}

UIFailures ==
    {JSError(<<"got status: 500 Internal Server Error">>), JSThrownText("timeout")}

ReadFailedMessage == <<"Failed to read image file.">>
NeedInputMessage == <<"Please upload an image and provide a prompt.">>
UnknownErrorMessage == <<"An unknown error occurred.">>

\* `${value}` in a template literal.
Interpolate(value) ==
    IF value = Undefined
    THEN <<"u", "n", "d", "e", "f", "i", "n", "e", "d">>
    ELSE value

\* A plausible slip: the button stays enabled while a request is outstanding.
GenerateDisabledIgnoresLoading == originalImage = None \/ prompt = ""

\* The Generate button's disabled attribute.
GenerateDisabled == originalImage = None \/ prompt = "" \/ isLoading

\* The file input's disabled attribute.
FileInputDisabled == isLoading

\* The textarea's disabled attribute.
PromptDisabled == originalImage = None \/ isLoading

\* The clear button is rendered only with an image, and has a disabled attribute.
ClearDisabled == originalImage = None \/ isLoading

\* The change event of the file input, up to the await: the user picks another
\* file, or leaves the input with none.
HandleImageChange ==
    /\ ~FileInputDisabled
    /\ \E chosen \in {None} \cup {Some(f) : f \in UIFiles} :
        /\ chosen # fileInput
        /\ fileInput' = chosen
        /\ IF chosen = None
           THEN UNCHANGED <<generatedImage, error, reads>>
           ELSE /\ BagCardinality(reads) < MaxPendingReads
                /\ generatedImage' = None
                /\ error' = None
                /\ reads' = reads (+) SetToBag({ReadPending(chosen[1])})
    /\ UNCHANGED <<originalImage, prompt, isLoading, edits, settled>>
    /\ UNCHANGED <<apiKey, call, enc>>

\* handleImageChange resumed after a read that succeeded.
ImageLoaded ==
    /\ \E p \in BagToSet(reads) :
        \E result \in ReadAsDataURL(p.file) :
            /\ reads' = reads (-) SetToBag({p})
            /\ originalImage' =
                   Some([file |-> p.file,
                         base64 |-> ReadFulfilled(p, result).value])
    /\ UNCHANGED <<prompt, generatedImage, isLoading, error, edits, fileInput,
                   settled>>
    /\ UNCHANGED <<apiKey, call, enc>>

\* handleImageChange resumed after a read that failed.
ImageFailed ==
    /\ \E p \in BagToSet(reads), ev \in ReadErrors :
        /\ ReadRejected(p, ev).pc = "rejected"
        /\ reads' = reads (-) SetToBag({p})
    /\ error' = Some(ReadFailedMessage)
    /\ originalImage' = None
    /\ UNCHANGED <<prompt, generatedImage, isLoading, edits, fileInput, settled>>
    /\ UNCHANGED <<apiKey, call, enc>>

\* The textarea's change event.
SetPrompt ==
    /\ ~PromptDisabled
    /\ \E text \in Prompts \cup {""} :
        /\ text # prompt
        /\ prompt' = text
    /\ UNCHANGED <<originalImage, generatedImage, isLoading, error, reads,
                   edits, fileInput, settled>>
    /\ UNCHANGED <<apiKey, call, enc>>

\* A click on the Generate button: handleGenerateClick up to its await.
HandleGenerateClick ==
    /\ ~GenerateDisabled
    /\ IF originalImage = None \/ prompt = ""
       THEN /\ error' = Some(NeedInputMessage)
            /\ UNCHANGED <<generatedImage, isLoading, edits>>
       ELSE /\ BagCardinality(edits) < MaxPendingEdits
            /\ isLoading' = TRUE
            /\ error' = None
            /\ generatedImage' = None
            /\ edits' = edits (+) SetToBag({
                   [promise |-> EditStart(apiKey, originalImage[1].base64,
                                          originalImage[1].file.type, prompt),
                    originalImage |-> originalImage[1]]})
    /\ UNCHANGED <<originalImage, prompt, reads, fileInput, settled>>
    /\ UNCHANGED <<apiKey, call, enc>>

\* A plausible slip: the busy flag is reset on success only.
ResumeWithoutFinally(e, p) ==
    /\ edits' = edits (-) SetToBag({e})
    /\ settled' = Some([promise |-> p, originalImage |-> e.originalImage])
    /\ IF p.pc = "fulfilled"
       THEN /\ generatedImage' =
                   Some(DataScheme \o e.originalImage.file.type \o Base64Marker
                                   \o Interpolate(p.value))
            /\ isLoading' = FALSE
            /\ UNCHANGED error
       ELSE /\ error' = Some(IF p.reason[1].isError
                             THEN p.reason[1].message
                             ELSE UnknownErrorMessage)
            /\ UNCHANGED <<generatedImage, isLoading>>
    /\ UNCHANGED <<originalImage, prompt, reads, fileInput>>
    /\ UNCHANGED <<apiKey, call, enc>>

\* handleGenerateClick resumed on the settled promise p of its call e: the
\* rest of the try block or the catch block, then the finally block.
Resume(e, p) ==
    /\ edits' = edits (-) SetToBag({e})
    /\ settled' = Some([promise |-> p, originalImage |-> e.originalImage])
    /\ IF p.pc = "fulfilled"
       THEN /\ generatedImage' =
                   Some(DataScheme \o e.originalImage.file.type \o Base64Marker
                                   \o Interpolate(p.value))
            /\ UNCHANGED error
       ELSE /\ error' = Some(IF p.reason[1].isError
                             THEN p.reason[1].message
                             ELSE UnknownErrorMessage)
            /\ UNCHANGED generatedImage
    /\ isLoading' = FALSE
    /\ UNCHANGED <<originalImage, prompt, reads, fileInput>>
    /\ UNCHANGED <<apiKey, call, enc>>

\* The service answers a request.
EditResponds ==
    \E e \in BagToSet(edits), r \in UIResponses :
        /\ e.promise.pc = "awaiting"
        /\ Resume(e, EditOnResponse(e.promise, r))

\* The request to the service fails.
EditFails ==
    \E e \in BagToSet(edits), t \in UIFailures :
        /\ e.promise.pc = "awaiting"
        /\ Resume(e, EditOnFailure(e.promise, t))

\* The call threw before its await: the promise was rejected from the start.
EditRejectedAtStart ==
    \E e \in BagToSet(edits) :
        /\ e.promise.pc = "rejected"
        /\ Resume(e, e.promise)

\* A click on the clear button.
ClearImage ==
    /\ ~ClearDisabled
    /\ originalImage' = None
    /\ generatedImage' = None
    /\ error' = None
    /\ fileInput' = None
    /\ UNCHANGED <<prompt, isLoading, reads, edits, settled>>
    /\ UNCHANGED <<apiKey, call, enc>>

InitUI ==
    /\ originalImage = None
    /\ prompt = ""
    /\ generatedImage = None
    /\ isLoading = FALSE
    /\ error = None
    /\ reads = EmptyBag
    /\ edits = EmptyBag
    /\ fileInput = None
    /\ settled = None

Init ==
    /\ apiKey \in KeyValues
    /\ InitUI
    /\ call = None
    /\ enc = None

ServiceNext == Invoke \/ Respond \/ Fail
ServiceSpec == Init /\ [][ServiceNext]_vars

EncoderNext == Encode \/ EncodeLoads \/ EncodeFails
EncoderSpec == Init /\ [][EncoderNext]_vars

EditSettles == EditResponds \/ EditFails \/ EditRejectedAtStart

Next ==
    \/ HandleImageChange
    \/ ImageLoaded
    \/ ImageFailed
    \/ SetPrompt
    \/ HandleGenerateClick
    \/ EditResponds
    \/ EditFails
    \/ EditRejectedAtStart
    \/ ClearImage

Spec == Init /\ [][Next]_vars

\* A promise that has settled resumes the function awaiting it, and the remote
\* call is taken to settle.
FairSpec == Spec /\ WF_vars(EditSettles)

(***************************************************************************)
(* The specification's names for the errors the code raises, all of them   *)
(* plain Error objects told apart by their message.                        *)
(***************************************************************************)
IsMissingCredentialError(e) == e.isError /\ e.message = <<KeyNotSetMessage>>

IsNoImageInResponseError(e) == e.isError /\ e.message = <<NoImageMessage>>

IsGenerationFailedError(e) ==
    e.isError /\ Len(e.message) >= 1 /\ e.message[1] = FailedPrefix

\* The first candidate's parts of a response, where it has any.
PartsOfFirst(r) ==
    IF r.candidates = None THEN <<>>
    ELSE IF r.candidates[1] = <<>> THEN <<>>
    ELSE IF r.candidates[1][1].content = None THEN <<>>
    ELSE IF r.candidates[1][1].content[1].parts = None THEN <<>>
    ELSE r.candidates[1][1].content[1].parts[1]

ImageIndexes(r) ==
    {i \in 1..Len(PartsOfFirst(r)) : PartsOfFirst(r)[i].inlineData # None}

Responded == call # None /\ call[1].response # None

\* C1: with no credential configured (API_KEY absent or empty) every
\* invocation of editImageWithPrompt is rejected with the credential error
\* itself (not wrapped as a generation failure, nothing logged by the catch
\* block) and has issued no generateContent call.
C1_MissingCredentialFailsFast ==
    (call # None /\ KeyMissing(apiKey)) =>
        /\ call[1].pc = "rejected"
        /\ call[1].requests = <<>>
        /\ IsMissingCredentialError(call[1].reason[1])
        /\ ~IsGenerationFailedError(call[1].reason[1])
        /\ call[1].logged = <<>>

C1_Witness ==
    /\ call # None
    /\ apiKey = Some("")
    /\ call[1].pc = "rejected"
    /\ call[1].requests = <<>>

\* C2: once the service has responded, the call is fulfilled exactly when the
\* first candidate has a part with inline data, and then with the data of the
\* first such part; parts before it, inline parts after it and the candidates
\* after the first have no influence.
C2_FirstImageOfFirstCandidate ==
    Responded =>
        LET r == call[1].response[1]
        IN  /\ call[1].pc = "fulfilled" <=> ImageIndexes(r) # {}
            /\ ImageIndexes(r) # {} =>
                   \E k \in ImageIndexes(r) :
                       /\ \A j \in ImageIndexes(r) : k <= j
                       /\ call[1].value = PartsOfFirst(r)[k].inlineData[1].data

C2_Witness ==
    /\ Responded
    /\ call[1].response[1].candidates =
           Some(<<[content |-> Some([parts |-> Some(<<TextPart, InlinePart(ABC123)>>)])],
                  [content |-> Some([parts |-> Some(<<InlinePart(TQ)>>)])]>>)
    /\ call[1].pc = "fulfilled"
    /\ call[1].value = ABC123

\* C3 as stated: a response without an image part in its first candidate makes
\* the call fail with NoImageInResponseError, which the caller can tell from
\* the error of a transport failure.
C3_Original ==
    (Responded /\ ImageIndexes(call[1].response[1]) = {}) =>
        /\ call[1].pc = "rejected"
        /\ IsNoImageInResponseError(call[1].reason[1])
        /\ ~IsGenerationFailedError(call[1].reason[1])

\* C3 as amended: a response without an image part in its first candidate
\* makes the call return no value and fail with a GenerationFailedError whose
\* message is the prefix followed by the NoImageInResponseError's text; the
\* NoImageInResponseError itself is only logged.
C3_NoImageIsWrapped ==
    (Responded /\ ImageIndexes(call[1].response[1]) = {}) =>
        /\ call[1].pc = "rejected"
        /\ call[1].value = Undefined
        /\ IsGenerationFailedError(call[1].reason[1])
        /\ call[1].reason[1].message = <<FailedPrefix, NoImageMessage>>
        /\ Len(call[1].logged) = 1
        /\ IsNoImageInResponseError(call[1].logged[1])

C3_Witness ==
    /\ Responded
    /\ call[1].response[1].candidates =
           Some(<<[content |-> Some([parts |-> Some(<<TextPart>>)])]>>)
    /\ call[1].pc = "rejected"

\* C4: a call whose request failed in transport is rejected with a
\* GenerationFailedError whose message ends with the transport's diagnostic
\* text, and has issued exactly one request.
C4_TransportFailureWrappedOnce ==
    (call # None /\ call[1].response = None /\ call[1].logged # <<>>) =>
        LET thrown == call[1].logged[1]
        IN  /\ call[1].pc = "rejected"
            /\ IsGenerationFailedError(call[1].reason[1])
            /\ Tail(call[1].reason[1].message) =
                   (IF thrown.isError THEN thrown.message ELSE thrown.text)
            /\ Tail(call[1].reason[1].message) # <<>>
            /\ Len(call[1].requests) = 1
            /\ Len(call[1].logged) = 1

C4_Witness ==
    /\ call # None
    /\ call[1].pc = "rejected"
    /\ call[1].reason[1].message =
           <<FailedPrefix, "got status: 500 Internal Server Error">>
    /\ Len(call[1].requests) = 1

\* C5: at most one edit request is outstanding, and while one is, isLoading
\* is true and a click on Generate is impossible.
C5_OneEditAtATime ==
    /\ BagCardinality(edits) <= 1
    /\ BagCardinality(edits) >= 1 => (isLoading /\ ~ENABLED HandleGenerateClick)

C5_Witness ==
    /\ BagCardinality(edits) = 1
    /\ \E e \in BagToSet(edits) : e.promise.pc = "awaiting"
    /\ originalImage # None
    /\ prompt # ""

\* C6 as stated: at most one asynchronous operation, a file read or an edit
\* request, is in flight.
C6_Original == BagCardinality(reads) + BagCardinality(edits) <= 1

\* The reference decoder of base64 text; <<256>> for text that is not base64.
IsB64Char(c) == \E i \in 1..64 : B64[i] = c

B64Index(c) == (CHOOSE i \in 1..64 : B64[i] = c) - 1

WellFormedBase64(s) ==
    /\ Len(s) % 4 = 0
    /\ \A i \in 1..Len(s) :
           \/ IsB64Char(s[i])
           \/ /\ s[i] = "="
              /\ i >= Len(s) - 1
              /\ s[Len(s)] = "="

RECURSIVE DecodeQuads(_)
DecodeQuads(s) ==
    IF s = <<>> THEN <<>>
    ELSE LET b1 == B64Index(s[1]) * 4 + (B64Index(s[2]) \div 16)
             b2 == (B64Index(s[2]) % 16) * 16 + (B64Index(s[3]) \div 4)
             b3 == (B64Index(s[3]) % 4) * 64 + B64Index(s[4])
         IN  IF s[3] = "=" THEN <<b1>>
             ELSE IF s[4] = "=" THEN <<b1, b2>>
             ELSE <<b1, b2, b3>> \o DecodeQuads(SubSeq(s, 5, Len(s)))

Base64Decode(s) == IF WellFormedBase64(s) THEN DecodeQuads(s) ELSE <<256>>

\* C7 as stated: the text fileToBase64 resolves to decodes to exactly the
\* file's bytes, and is the empty text for an empty file.
C7_Original ==
    (enc # None /\ enc[1].pc = "fulfilled") =>
        /\ Base64Decode(enc[1].value) = enc[1].file.bytes
        /\ enc[1].file.bytes = <<>> => enc[1].value = <<>>

\* What is left of C7: the round trip for every file that has bytes.
C7_RoundTripOfNonEmptyFiles ==
    (enc # None /\ enc[1].pc = "fulfilled" /\ enc[1].file.bytes # <<>>) =>
        Base64Decode(enc[1].value) = enc[1].file.bytes

\* C8: a dispatched edit request always comes to its end: isLoading returns
\* to false, and the step that resets it records exactly one outcome of the
\* request, the generated image on success or the failure's message as it is.
C8_RequestCompletes ==
    /\ isLoading ~> ~isLoading
    /\ [][(isLoading /\ ~isLoading') =>
            /\ settled' # None
            /\ \/ /\ settled'[1].promise.pc = "fulfilled"
                  /\ generatedImage' # None
                  /\ error' = error
               \/ /\ settled'[1].promise.pc = "rejected"
                  /\ error' = Some(settled'[1].promise.reason[1].message)
                  /\ generatedImage' = generatedImage]_vars

C8_Witness ==
    /\ ~isLoading
    /\ settled # None
    /\ settled[1].promise.pc = "rejected"
    /\ error = Some(<<FailedPrefix, "got status: 500 Internal Server Error">>)
    /\ generatedImage = None

\* C9 as stated: error and generatedImage are never both non-null.
C9_Original == ~(error # None /\ generatedImage # None)

\* C10 as stated: whenever generatedImage is non-null, originalImage is the
\* image that was sent in the request which produced it.
C10_Original ==
    generatedImage # None =>
        /\ originalImage # None
        /\ settled # None
        /\ originalImage[1] = settled[1].originalImage

=============================================================================
